---- MODULE Spec2Model ----
(***************************************************************************)
(* Model of crafthead's MojangRequestService (src/worker/services/mojang/  *)
(* service.ts): request normalisation, the cached skin pipeline and the    *)
(* deterministic default skin.                                             *)
(*                                                                         *)
(* Strings are sequences of character codes, byte buffers are sequences of *)
(* bytes.  A JavaScript "undefined" field is a record without that field.  *)
(* Every "await" of the source is a suspension point: one action runs the  *)
(* code between two awaits, as the single-threaded runtime does.           *)
(***************************************************************************)
EXTENDS Integers, Sequences, FiniteSets

\* Number of retrieveSkin invocations that may be in flight together.
MaxCalls == 2

Calls == 1..MaxCalls

-----------------------------------------------------------------------------
(* Text and byte helpers (imports of service.ts, lines 5 and 8).           *)

\* The characters of the texts the model uses.
Str_char        == <<99, 104, 97, 114>>
Str_MHF_Steve   == <<77, 72, 70, 95, 83, 116, 101, 118, 101>>
Str_Notch       == <<78, 111, 116, 99, 104>>
Str_skinPrefix  == <<115, 107, 105, 110, 58>>
Str_offlinePfx  == <<79, 102, 102, 108, 105, 110, 101, 80, 108, 97, 121,
                     101, 114, 58>>
Str_empty       == <<>>

\* The two bundled default images and the texture served upstream.
STEVE_SKIN  == <<137, 80, 78, 71, 1>>
ALEX_SKIN   == <<137, 80, 78, 71, 2>>
TextureY    == <<137, 80, 78, 71, 3>>
EmptyBuffer == <<>>

\* Value of one hexadecimal digit, -1 for any other character.
HexVal(ch) ==
    IF ch \in 48..57 THEN ch - 48
    ELSE IF ch \in 97..102 THEN ch - 87
    ELSE IF ch \in 65..70 THEN ch - 55
    ELSE -1

\* Lower-case hexadecimal digit of a value 0..15.
HexChar(v) == IF v < 10 THEN 48 + v ELSE 87 + v

IsDash(ch) == ch = 45

\* fromHex: dashes are dropped, case is ignored, exactly 32 hex digits are
\* required; anything else is a FormatError.
fromHex(text) ==
    LET digits == SelectSeq(text, LAMBDA ch : ~IsDash(ch))
        wellFormed == /\ Len(digits) = 32
                      /\ \A i \in 1..Len(digits) : HexVal(digits[i]) >= 0
    IN  IF wellFormed
        THEN [ok |-> TRUE,
              bytes |-> [i \in 1..16 |->
                            16 * HexVal(digits[2 * i - 1]) + HexVal(digits[2 * i])]]
        ELSE [ok |-> FALSE, bytes |-> <<>>]

\* toHex: 32 lower-case hexadecimal characters, no dashes.
toHex(bytes) ==
    [i \in 1..(2 * Len(bytes)) |->
        IF i % 2 = 1 THEN HexChar(bytes[(i + 1) \div 2] \div 16)
                     ELSE HexChar(bytes[i \div 2] % 16)]

\* uuidVersion: the high nibble of byte 6 (counted from 0).
uuidVersion(raw) == raw[7] \div 16

\* One step h -> 31*h + b of the hash in signed 32-bit arithmetic.  The
\* value is split in 16-bit halves so that no intermediate result leaves
\* the 32-bit range.
HashStep(h, b) ==
    LET u  == IF h < 0 THEN (h + 2147483647) + 1 ELSE h   \* low 31 bits
        hi == (u \div 65536) + (IF h < 0 THEN 32768 ELSE 0)
        lo == u % 65536
        t  == 31 * lo + b
        lo2 == t % 65536
        hi2 == (31 * hi + (t \div 65536)) % 65536
    IN  IF hi2 >= 32768
        THEN (hi2 - 65536) * 65536 + lo2
        ELSE hi2 * 65536 + lo2

RECURSIVE HashFrom(_, _, _)
HashFrom(h, data, i) ==
    IF i > Len(data) THEN h
    ELSE HashFrom(HashStep(h, data[i]), data, i + 1)

\* javaHashCode: h = 31*h + c over the bytes, in signed 32-bit arithmetic.
javaHashCode(raw) == HashFrom(0, raw, 1)

\* Math.abs(x) % m on JavaScript numbers: Math.abs works on doubles, so
\* the absolute value of -2^31 is 2^31, not an overflow.
MathAbsMod(x, m) ==
    IF x < 0 THEN (((-(x + 1)) % m) + 1) % m ELSE x % m

RECURSIVE MixFrom(_, _, _)
MixFrom(data, salt, j) ==
    IF j > Len(data) THEN salt
    ELSE MixFrom(data, (salt * 33 + data[j] * (j + 7)) % 65521, j + 1)

\* The 16-byte digest of a text.  The digest function itself (MD5) is
\* abstracted by a deterministic mixing function of the whole input.
Digest(data) == [i \in 1..16 |-> MixFrom(data, 17 * i, 1) % 256]

\* offlinePlayerUuid: digest of "OfflinePlayer:" + username with the version
\* nibble set to 3 and the variant bits set to 10.
offlinePlayerUuid(username) ==
    LET d == Digest(Str_offlinePfx \o username)
    IN  [i \in 1..16 |->
            IF i = 7 THEN (d[i] % 16) + 48
            ELSE IF i = 9 THEN (d[i] % 64) + 128
            ELSE d[i]]

-----------------------------------------------------------------------------
(* The collaborators' data.                                                *)

\* A Mojang-issued (version 4) account UUID, 069a79f4-44e9-4726-a5be-...
OnlineUuid == <<6, 154, 121, 244, 68, 233, 71, 38,
                165, 190, 252, 169, 14, 56, 170, 245>>
OnlineUuidText == toHex(OnlineUuid)

\* What the username lookup may do when asked about a username.
LookupOutcomes == {"match", "noid", "emptyid", "absent", "error"}

\* lookupUsername's answer: a record with an id, a record without a usable
\* id (none, or an empty one), or null.
LookupResult(outcome, username) ==
    CASE outcome = "match" -> [isNull |-> FALSE,
                               rec |-> [id |-> OnlineUuidText, name |-> username]]
      [] outcome = "noid"  -> [isNull |-> FALSE, rec |-> [name |-> username]]
      [] outcome = "emptyid" -> [isNull |-> FALSE,
                                 rec |-> [id |-> Str_empty, name |-> username]]
      [] OTHER             -> [isNull |-> TRUE, rec |-> [name |-> username]]

\* The shapes in which the profile service may answer about OnlineUuid: it
\* knows no such player, or it has a profile without a properties list,
\* without a textures property, with textures but no SKIN, with a skin, or
\* with a textures value that is no base64-encoded JSON.
ProfileShapes ==
    {"absent", "noprops", "notextures", "noskin", "skin", "garbled"}

TexturesOfShape(shape) ==
    CASE shape = "notextures" -> << [name |-> "uploadableTextures", value |-> "b64:none"] >>
      [] shape = "noskin"     -> << [name |-> "textures", value |-> "b64:cape"] >>
      [] shape = "garbled"    -> << [name |-> "textures", value |-> "%%%"] >>
      [] OTHER                -> << [name |-> "textures", value |-> "b64:skin"] >>

\* mojangApi.fetchProfile's result for an identity text when the service
\* answers in the given shape: null for an identity it does not know.
ProfileResult(shape, idText) ==
    LET parsed == fromHex(idText)
        known  == parsed.ok /\ parsed.bytes = OnlineUuid /\ shape # "absent"
    IN  IF ~known THEN [isNull |-> TRUE, profile |-> [id |-> idText]]
        ELSE IF shape = "noprops"
        THEN [isNull |-> FALSE, profile |-> [id |-> idText]]
        ELSE [isNull |-> FALSE,
              profile |-> [id |-> idText, properties |-> TexturesOfShape(shape)]]

\* JSON.parse(atob(value)) of a textures property value; both throw on
\* a value that is not what they expect.
DecodeTextures(value) ==
    CASE value = "b64:skin" ->
            [ok |-> TRUE,
             json |-> [textures |-> [SKIN |-> [url |-> "X"], CAPE |-> [url |-> "Z"]]]]
      [] value = "b64:cape" ->
            [ok |-> TRUE, json |-> [textures |-> [CAPE |-> [url |-> "Z"]]]]
      [] OTHER ->
            [ok |-> FALSE, json |-> [textures |-> [CAPE |-> [url |-> "Z"]]]]

\* The body served at a texture URL.
TextureAt(url) == IF url = "X" THEN TextureY ELSE EmptyBuffer

-----------------------------------------------------------------------------
(* The pure parts of MojangRequestService.                                 *)

\* Variant of IsSpecialCased that forgets the second alias.
IsSpecialCased_CharOnly(identity) == identity = Str_char

\* service.ts:57, the identities special-cased by retrieveSkin.
IsSpecialCased(identity) == identity = Str_char \/ identity = Str_MHF_Steve

\* service.ts:43-53, the request normalizeRequest builds from the lookup.
NormalizedFromLookup(request, lookupResult) ==
    IF ~lookupResult.isNull
    THEN IF "id" \in DOMAIN lookupResult.rec
         THEN [identity |-> lookupResult.rec.id, identityType |-> "Uuid"]
         ELSE [identityType |-> "Uuid"]
    ELSE [identity |-> toHex(offlinePlayerUuid(request.identity)),
          identityType |-> "Uuid"]

\* service.ts:63, !normalized.identity
IdentityIsFalsy(normalized) ==
    \/ "identity" \notin DOMAIN normalized
    \/ normalized.identity = Str_empty

\* The header that carries the provenance tag.
TagHeader == "X-Crafthead-Skin-Cache-Hit"

\* new Response(body, {headers: {'X-Crafthead-Skin-Cache-Hit': tag}})
Tagged(body, tag) ==
    [kind |-> "response", body |-> body, headers |-> {<<TagHeader, tag>>}]

\* new Response(body) without headers.
Untagged(body) == [kind |-> "response", body |-> body, headers |-> {}]

Thrown(what) == [kind |-> "error", error |-> what]

NoResponse == [kind |-> "none"]

\* x % m on JavaScript numbers: the remainder takes the sign of x.
JsRemainder(x, m) == IF x < 0 THEN 0 - MathAbsMod(x, m) ELSE x % m

\* Variant of DefaultSkinForHash that tests hash % 2 == 1 for Alex, without
\* Math.abs.
DefaultSkinForHash_SignedOddTest(hash) ==
    IF JsRemainder(hash, 2) = 1
    THEN Tagged(ALEX_SKIN, "invalid-profile")
    ELSE Tagged(STEVE_SKIN, "invalid-profile")

\* service.ts:94-106, the choice between the two defaults by the hash:
\* Math.abs(hash) % 2 == 0 selects Steve.
DefaultSkinForHash(hash) ==
    IF MathAbsMod(hash, 2) = 0
    THEN Tagged(STEVE_SKIN, "invalid-profile")
    ELSE Tagged(ALEX_SKIN, "invalid-profile")

\* service.ts:94-106, the deterministic default.
DefaultSkinResponse(rawUuid) == DefaultSkinForHash(javaHashCode(rawUuid))

\* Variant of SkinResponseAfterCompute without the byteLength test.
SkinResponseAfterCompute_NoLengthCheck(rawUuid, result, source) ==
    Tagged(result, source)

\* Variant of SkinResponseAfterCompute that ignores computeBuffer's source.
SkinResponseAfterCompute_TagOrigin(rawUuid, result, source) ==
    IF Len(result) > 0
    THEN Tagged(result, "origin")
    ELSE DefaultSkinResponse(rawUuid)

\* Variant of SkinResponseAfterCompute that tags every computed skin cache.
SkinResponseAfterCompute_TagCache(rawUuid, result, source) ==
    IF Len(result) > 0
    THEN Tagged(result, "cache")
    ELSE DefaultSkinResponse(rawUuid)

\* service.ts:84-106, what retrieveSkin returns once computeBuffer answered.
SkinResponseAfterCompute(rawUuid, result, source) ==
    IF Len(result) > 0
    THEN Tagged(result, source)
    ELSE DefaultSkinResponse(rawUuid)

\* service.ts:150-161, extractUrlFromTexturesProperty; the argument is the
\* sequence of properties named 'textures' (empty: find returned undefined).
\* The url is a set: empty for undefined, else the URL.
extractUrlFromTexturesProperty(found) ==
    IF found = <<>> THEN [threw |-> FALSE, url |-> {}]
    ELSE LET decoded == DecodeTextures(found[1].value)
             textures == decoded.json.textures
         IN  IF ~decoded.ok THEN [threw |-> TRUE, url |-> {}]
             ELSE IF "SKIN" \in DOMAIN textures
             THEN [threw |-> FALSE, url |-> {textures.SKIN.url}]
             ELSE [threw |-> FALSE, url |-> {}]

\* service.ts:110-113, the texture URL of a profile, if it has one.
TextureUrlOfProfile(profile) ==
    IF "properties" \in DOMAIN profile
    THEN extractUrlFromTexturesProperty(
             SelectSeq(profile.properties, LAMBDA p : p.name = "textures"))
    ELSE [threw |-> FALSE, url |-> {}]

\* Variant of NoUrlBody: an empty body when the profile has no skin URL.
NoUrlBody_Empty == EmptyBuffer

\* service.ts:135-136 and 79: the body fetchSkinTextureFromProfile returns
\* for a profile without a usable skin URL.
NoUrlBody == STEVE_SKIN

\* Variant of CacheKey that leaves the identity out of the key.
CacheKey_NoIdentity(normalized) == Str_skinPrefix

\* service.ts:74
CacheKey(normalized) == Str_skinPrefix \o normalized.identity

-----------------------------------------------------------------------------
(* The state.                                                              *)

VARIABLES
    calls,      \* calls[c]: one invocation of retrieveSkin, its locals, what
                \* its collaborators answered, and (prior) the calls that
                \* had settled when it was issued
    tasks,      \* tasks[c]: the deferred work registered with c's gatherer
    store,      \* the key/value store: a set of [key, value] entries
    inputs,     \* inputs[ix]: the request objects the callers hold and pass
                \* in; several calls may be given the same object
    drained,    \* drained[c]: the request handler's drain of c's gatherer
                \* has returned
    probe       \* the argument and result of a pure function under test

vars == <<calls, tasks, store, inputs, drained, probe>>

\* The request objects the callers issue.
RequestPool ==
    << [identity |-> Str_char,       identityType |-> "Username"],
       [identity |-> Str_MHF_Steve,  identityType |-> "Username"],
       [identity |-> Str_Notch,      identityType |-> "Username"],
       [identity |-> OnlineUuidText, identityType |-> "Uuid"] >>

Requests == {RequestPool[ix] : ix \in DOMAIN RequestPool}

NoRequest == [identityType |-> "None"]

\* A call not yet issued.  op is the method called; input is the index of
\* the request object passed in and request its value at the call;
\* sameObject tells whether normalizeRequest returned the input object
\* itself; nLookups counts the calls of lookupUsername; key is cacheKey.
IdleCall ==
    [pc |-> "idle", op |-> "none", input |-> 0, request |-> NoRequest,
     normalized |-> NoRequest, sameObject |-> FALSE, nLookups |-> 0,
     lookup |-> "none", key |-> Str_empty, read |-> "none", prof |-> "none",
     textureUrl |-> {}, tex |-> "none", response |-> NoResponse,
     prior |-> {}, collab |-> NoResponse]

NoProbe == [fn |-> "none"]

\* The indexes a pool of request objects may use, and the places of the
\* tasks one gatherer may hold.
PoolIndexes == 1..16

TaskSlots == 1..2

\* The state every specification starts from, but for the request objects.
InitWith(pool) ==
    /\ calls = [c \in Calls |-> IdleCall]
    /\ tasks = [c \in Calls |-> <<>>]
    /\ store = {}
    /\ inputs = pool
    /\ drained = [c \in Calls |-> FALSE]
    /\ probe = NoProbe

Init == InitWith(RequestPool)

\* get(key): the entries stored under a key (none or one).
StoreGet(key) == {e \in store : e.key = key}

\* put(key, value): the last write wins.
StorePut(key, value) ==
    {e \in store : e.key # key} \cup {[key |-> key, value |-> value]}

\* Call c has returned or failed and every task registered with its
\* gatherer has settled: the request handler's drain has nothing left to
\* wait for.
Settled(c) ==
    /\ calls[c].pc \in {"done", "failed"}
    /\ \A i \in 1..Len(tasks[c]) : tasks[c][i].state # "pending"

Finish(cr, response) == [cr EXCEPT !.pc = "done", !.response = response]

Fail(cr, what) == [cr EXCEPT !.pc = "failed", !.response = Thrown(what)]

\* Variant of AfterNormalize without the version test: every UUID takes the
\* cached upstream path.
AfterNormalize_NoVersionGate(cr) ==
    IF IdentityIsFalsy(cr.normalized)
    THEN Finish(cr, Tagged(STEVE_SKIN, "unknown"))
    ELSE LET parsed == fromHex(cr.normalized.identity)
         IN  IF ~parsed.ok THEN Fail(cr, "FormatError")
             ELSE [cr EXCEPT !.pc = "cacheRead", !.key = CacheKey(cr.normalized)]

\* Variant of AfterNormalize without the test of line 63: an undefined or
\* empty identity reaches fromHex, which rejects it.
AfterNormalize_NoFalsyCheck(cr) ==
    IF IdentityIsFalsy(cr.normalized)
    THEN Fail(cr, "FormatError")
    ELSE LET parsed == fromHex(cr.normalized.identity)
         IN  IF ~parsed.ok THEN Fail(cr, "FormatError")
             ELSE IF uuidVersion(parsed.bytes) = 4
             THEN [cr EXCEPT !.pc = "cacheRead", !.key = CacheKey(cr.normalized)]
             ELSE Finish(cr, DefaultSkinResponse(parsed.bytes))

\* Variant of AfterNormalize that sends every version from 4 up to the
\* cache and the upstream.
AfterNormalize_GateFromFour(cr) ==
    IF IdentityIsFalsy(cr.normalized)
    THEN Finish(cr, Tagged(STEVE_SKIN, "unknown"))
    ELSE LET parsed == fromHex(cr.normalized.identity)
         IN  IF ~parsed.ok THEN Fail(cr, "FormatError")
             ELSE IF uuidVersion(parsed.bytes) >= 4
             THEN [cr EXCEPT !.pc = "cacheRead", !.key = CacheKey(cr.normalized)]
             ELSE Finish(cr, DefaultSkinResponse(parsed.bytes))

\* service.ts:63-72 and 94-106: retrieveSkin from the return of
\* normalizeRequest up to the call of computeBuffer.
AfterNormalize(cr) ==
    IF IdentityIsFalsy(cr.normalized)
    THEN Finish(cr, Tagged(STEVE_SKIN, "unknown"))
    ELSE LET parsed == fromHex(cr.normalized.identity)
         IN  IF ~parsed.ok THEN Fail(cr, "FormatError")
             ELSE IF uuidVersion(parsed.bytes) = 4
             THEN [cr EXCEPT !.pc = "cacheRead", !.key = CacheKey(cr.normalized)]
             ELSE Finish(cr, DefaultSkinResponse(parsed.bytes))

\* Variant of AfterCompute whose default alternates with the number of
\* calls settled before this one, instead of following the UUID's hash.
AfterCompute_Alternating(cr, result, source) ==
    Finish(cr, IF Len(result) > 0 THEN Tagged(result, source)
               ELSE IF Cardinality(cr.prior) % 2 = 0
               THEN Tagged(STEVE_SKIN, "invalid-profile")
               ELSE Tagged(ALEX_SKIN, "invalid-profile"))

\* service.ts:84-106: retrieveSkin from the return of computeBuffer on.
AfterCompute(cr, result, source) ==
    Finish(cr, SkinResponseAfterCompute(fromHex(cr.normalized.identity).bytes,
                                        result, source))

\* Variant of IsOfflineVersion that takes every version but 4 for offline.
IsOfflineVersion_NotFour(rawUuid) == uuidVersion(rawUuid) # 4

\* service.ts:141, uuidVersion(fromHex(normalized.identity)) === 3
IsOfflineVersion(rawUuid) == uuidVersion(rawUuid) = 3

\* service.ts:142-145, fetchProfile's answer for an offline UUID.
OfflineProfileAnswer == [kind |-> "profile", isNull |-> TRUE, source |-> "mojang"]

\* mojangApi.fetchProfile's answer to fetchProfile: the result for the
\* identity text it was asked about, with its provenance.
CollaboratorAnswer(shape, source, idText) ==
    [kind |-> "profile", asked |-> idText,
     isNull |-> ProfileResult(shape, idText).isNull,
     profile |-> ProfileResult(shape, idText).profile, source |-> source]

\* service.ts:140-147: fetchProfile from the return of normalizeRequest up
\* to the call of mojangApi.fetchProfile.  fromHex rejects an identity
\* that is undefined, empty or no UUID text.
AfterNormalizeProfile(cr) ==
    IF IdentityIsFalsy(cr.normalized) THEN Fail(cr, "FormatError")
    ELSE LET parsed == fromHex(cr.normalized.identity)
         IN  IF ~parsed.ok THEN Fail(cr, "FormatError")
             ELSE IF IsOfflineVersion(parsed.bytes)
             THEN Finish(cr, OfflineProfileAnswer)
             ELSE [cr EXCEPT !.pc = "profileCall"]

\* service.ts:40 and 53: normalizeRequest returns to a caller outside the
\* service.
NormalizeReturn(cr) ==
    Finish(cr, [kind |-> "request", request |-> cr.normalized])

\* What runs when normalizeRequest has returned, by the method that called
\* it: retrieveSkin (line 62), fetchProfile (line 140) or an outside caller.
Continue(cr) ==
    CASE cr.op = "profile"   -> AfterNormalizeProfile(cr)
      [] cr.op = "normalize" -> NormalizeReturn(cr)
      [] OTHER               -> AfterNormalize(cr)

\* Variant of NeedsLookup without the test of line 39.
NeedsLookup_Always(request) == TRUE

\* service.ts:39-41: normalizeRequest returns a Uuid-kind request as it is
\* and looks every other one up.
NeedsLookup(request) == request.identityType # "Uuid"

\* Variant of NormalizeTarget: const normalized = request.
NormalizeTarget_Alias == "input"

\* service.ts:43: the object normalizeRequest writes to, a copy of the
\* request made by Object.assign({}, request).
NormalizeTarget == "copy"

\* A call is issued: the fields every method's call starts with.
Issued(c, ix, op) ==
    [calls[c] EXCEPT !.op = op, !.input = ix, !.request = inputs[ix],
                     !.prior = {d \in Calls : Settled(d)}]

\* The next call slot is free; slots are taken in order.
FreeSlot(c) ==
    /\ calls[c].pc = "idle"
    /\ IF c = 1 THEN TRUE ELSE calls[c - 1].pc # "idle"

\* service.ts:56-62 and 38-46: retrieveSkin is called; it runs up to its
\* first suspension point.
Call(c, ix) ==
    /\ FreeSlot(c)
    /\ ix \in DOMAIN inputs
    /\ LET req == inputs[ix]
           cr  == Issued(c, ix, "skin")
       IN  IF IsSpecialCased(req.identity)
           THEN /\ calls' = [calls EXCEPT ![c] = Finish(cr, Untagged(STEVE_SKIN))]
                /\ inputs' = inputs
           ELSE IF ~NeedsLookup(req)
           THEN /\ calls' = [calls EXCEPT ![c] =
                       AfterNormalize([cr EXCEPT !.normalized = req,
                                                 !.sameObject = TRUE])]
                /\ inputs' = inputs
           ELSE /\ calls' = [calls EXCEPT ![c] =
                       [cr EXCEPT !.pc = "lookup", !.nLookups = @ + 1]]
                /\ inputs' = IF NormalizeTarget = "input"
                             THEN [inputs EXCEPT ![ix].identityType = "Uuid"]
                             ELSE inputs
    /\ UNCHANGED <<tasks, store, drained, probe>>

\* service.ts:46-54: lookupUsername settles and normalizeRequest returns;
\* lines 48 and 51 write the identity into the object of line 43.
LookupReturn(c, outcome) ==
    /\ calls[c].pc = "lookup"
    /\ LET cr == [calls[c] EXCEPT !.lookup = outcome]
           normalized == NormalizedFromLookup(cr.request,
                             LookupResult(outcome, cr.request.identity))
       IN  IF outcome = "error"
           THEN /\ calls' = [calls EXCEPT ![c] = Fail(cr, "LookupError")]
                /\ inputs' = inputs
           ELSE /\ calls' = [calls EXCEPT ![c] =
                       Continue([cr EXCEPT
                           !.normalized = normalized,
                           !.sameObject = (NormalizeTarget = "input")])]
                /\ inputs' = IF NormalizeTarget = "input"
                             THEN [inputs EXCEPT ![cr.input] = normalized]
                             ELSE inputs
    /\ UNCHANGED <<tasks, store, drained, probe>>

\* computeBuffer, step 1: the read of the key settles.  A failed read is a
\* miss; a hit returns the entry with source cache; a miss invokes the
\* producer, which calls mojangApi.fetchProfile (service.ts:76).
CacheRead(c, storeWorks) ==
    /\ calls[c].pc = "cacheRead"
    /\ LET hit == IF storeWorks THEN StoreGet(calls[c].key) ELSE {}
           cr  == [calls[c] EXCEPT !.read =
                      IF ~storeWorks THEN "fail"
                      ELSE IF hit = {} THEN "miss" ELSE "hit"]
       IN  calls' = [calls EXCEPT ![c] =
               IF hit = {}
               THEN [cr EXCEPT !.pc = "profileFetch"]
               ELSE AfterCompute(cr, (CHOOSE e \in hit : TRUE).value, "cache")]
    /\ UNCHANGED <<tasks, store, inputs, drained, probe>>

\* computeBuffer, steps 2-3: the producer settled with a value; the write
\* of the value is registered with the gatherer and the caller gets
\* {value, origin} without waiting for the write.
ProducerSettled(c, cr, value) ==
    /\ tasks' = [tasks EXCEPT ![c] = Append(@,
                    [key |-> cr.key, value |-> value,
                     state |-> "pending"])]
    /\ calls' = [calls EXCEPT ![c] = AfterCompute(cr, value, "origin")]

\* computeBuffer, step 4: the producer failed; the failure reaches the
\* caller of computeBuffer, and retrieveSkin (service.ts:75) does not catch.
ProducerFailed(c, cr, what) ==
    /\ tasks' = tasks
    /\ calls' = [calls EXCEPT ![c] = Fail(cr, what)]

\* service.ts:76-81 and 109-137: mojangApi.fetchProfile settles, with an
\* error or with an answer in one of the shapes.
ProfileFetch(c, outcome) ==
    /\ calls[c].pc = "profileFetch"
    /\ IF outcome = "error"
       THEN ProducerFailed(c, [calls[c] EXCEPT !.prof = "error"], "ProfileError")
       ELSE LET lookup == ProfileResult(outcome, calls[c].normalized.identity)
                found  == TextureUrlOfProfile(lookup.profile)
            IN  IF lookup.isNull
                THEN ProducerSettled(c, [calls[c] EXCEPT !.prof = "absent"],
                                     EmptyBuffer)
                ELSE IF found.threw
                THEN ProducerFailed(c, [calls[c] EXCEPT !.prof = "garbled"],
                                    "SyntaxError")
                ELSE IF found.url = {}
                THEN ProducerSettled(c, [calls[c] EXCEPT !.prof = "nourl"],
                                     NoUrlBody)
                ELSE /\ calls' = [calls EXCEPT ![c] =
                            [@ EXCEPT !.prof = "url", !.textureUrl = found.url,
                                      !.pc = "textureFetch"]]
                     /\ tasks' = tasks
    /\ UNCHANGED <<store, inputs, drained, probe>>

\* service.ts:114-131 and 79: the fetch of the texture URL settles.
TextureFetch(c, outcome) ==
    /\ calls[c].pc = "textureFetch"
    /\ LET url == CHOOSE u \in calls[c].textureUrl : TRUE
       IN  IF outcome = "ok"
           THEN ProducerSettled(c, [calls[c] EXCEPT !.tex = "ok"], TextureAt(url))
           ELSE ProducerFailed(c, [calls[c] EXCEPT !.tex = outcome], "TextureError")
    /\ UNCHANGED <<store, inputs, drained, probe>>

\* A deferred write settles: it reaches the store, or it fails and the
\* failure is only logged.
SettleWrite(c, i, storeWorks) ==
    /\ i \in DOMAIN tasks[c]
    /\ tasks[c][i].state = "pending"
    /\ tasks' = [tasks EXCEPT ![c][i].state =
                    IF storeWorks THEN "written" ELSE "failed"]
    /\ store' = IF storeWorks
                THEN StorePut(tasks[c][i].key, tasks[c][i].value)
                ELSE store
    /\ UNCHANGED <<calls, inputs, drained, probe>>

Next ==
    \/ \E c \in Calls, ix \in PoolIndexes : Call(c, ix)
    \/ \E c \in Calls, outcome \in LookupOutcomes : LookupReturn(c, outcome)
    \/ \E c \in Calls, storeWorks \in BOOLEAN : CacheRead(c, storeWorks)
    \/ \E c \in Calls, outcome \in ProfileShapes \cup {"error"} :
           ProfileFetch(c, outcome)
    \/ \E c \in Calls, outcome \in {"ok", "http500"} : TextureFetch(c, outcome)
    \/ \E c \in Calls, i \in TaskSlots, storeWorks \in BOOLEAN :
           SettleWrite(c, i, storeWorks)

Spec == Init /\ [][Next]_vars

\* service.ts:38-46, entered from fetchProfile (line 140) or from outside:
\* normalizeRequest runs up to its first suspension point.
NormalizeStart(c, ix, op) ==
    /\ FreeSlot(c)
    /\ ix \in DOMAIN inputs
    /\ LET req == inputs[ix]
           cr  == Issued(c, ix, op)
       IN  IF ~NeedsLookup(req)
           THEN /\ calls' = [calls EXCEPT ![c] =
                       Continue([cr EXCEPT !.normalized = req,
                                           !.sameObject = TRUE])]
                /\ inputs' = inputs
           ELSE /\ calls' = [calls EXCEPT ![c] =
                       [cr EXCEPT !.pc = "lookup", !.nLookups = @ + 1]]
                /\ inputs' = IF NormalizeTarget = "input"
                             THEN [inputs EXCEPT ![ix].identityType = "Uuid"]
                             ELSE inputs
    /\ UNCHANGED <<tasks, store, drained, probe>>

\* service.ts:139-140: fetchProfile is called.
FetchProfileCall(c, ix) == NormalizeStart(c, ix, "profile")

\* service.ts:38: normalizeRequest is called from outside the service.
NormalizeRequestCall(c, ix) == NormalizeStart(c, ix, "normalize")

\* service.ts:147: mojangApi.fetchProfile settles and fetchProfile returns
\* its answer, or fails with its error.
ProfileAnswer(c, shape, source) ==
    /\ calls[c].pc = "profileCall"
    /\ LET answer == IF shape = "error" THEN Thrown("ProfileError")
                     ELSE CollaboratorAnswer(shape, source,
                                             calls[c].normalized.identity)
           cr == [calls[c] EXCEPT !.collab = answer]
       IN  calls' = [calls EXCEPT ![c] =
               IF shape = "error" THEN Fail(cr, "ProfileError")
               ELSE Finish(cr, answer)]
    /\ UNCHANGED <<tasks, store, inputs, drained, probe>>

\* The caller passes a request normalizeRequest returned to the service
\* again: the output of call c joins the requests in use.
Reuse(c) ==
    /\ calls[c].op = "normalize"
    /\ calls[c].pc = "done"
    /\ \A ix \in DOMAIN inputs : inputs[ix] # calls[c].response.request
    /\ Len(inputs) + 1 \in PoolIndexes
    /\ inputs' = Append(inputs, calls[c].response.request)
    /\ UNCHANGED <<calls, tasks, store, drained, probe>>

\* Requests for fetchProfile and normalizeRequest: a username, and Uuid-kind
\* requests of version 4, of version 3 (the offline UUID of the username)
\* and of version 1.
ApiPool ==
    << [identity |-> Str_Notch, identityType |-> "Username"],
       [identity |-> OnlineUuidText, identityType |-> "Uuid"],
       [identity |-> toHex(offlinePlayerUuid(Str_Notch)), identityType |-> "Uuid"],
       [identity |-> toHex([OnlineUuid EXCEPT ![7] = 16 + (@ % 16)]),
        identityType |-> "Uuid"] >>

InitApi == InitWith(ApiPool)

NextApi ==
    \/ \E c \in Calls, ix \in PoolIndexes : FetchProfileCall(c, ix)
    \/ \E c \in Calls, ix \in PoolIndexes : NormalizeRequestCall(c, ix)
    \/ \E c \in Calls, outcome \in LookupOutcomes : LookupReturn(c, outcome)
    \/ \E c \in Calls, shape \in {"absent", "skin", "error"},
          source \in {"cache", "origin"} : ProfileAnswer(c, shape, source)
    \/ \E c \in Calls : Reuse(c)

SpecApi == InitApi /\ [][NextApi]_vars

\* The key of a background write other than the skin's.
Str_other == <<111, 116, 104, 101, 114>>

\* Variant of DrainReturns that returns only when every task succeeded.
DrainReturns_AllFulfilled(c) ==
    /\ calls[c].pc \in {"done", "failed"}
    /\ \A i \in 1..Len(tasks[c]) : tasks[c][i].state = "written"

\* PromiseGatherer.drain of call c's gatherer can return: the handler has
\* its response and every registered task has settled, failed or not.
DrainReturns(c) == Settled(c)

\* PromiseGatherer.register: the request handler, having its response,
\* registers one more background write, once, with the gatherer of call c.
RegisterSibling(c) ==
    /\ calls[c].pc \in {"done", "failed"}
    /\ ~drained[c]
    /\ \A i \in 1..Len(tasks[c]) : tasks[c][i].key # Str_other
    /\ tasks' = [tasks EXCEPT ![c] = Append(@,
                    [key |-> Str_other, value |-> EmptyBuffer,
                     state |-> "pending"])]
    /\ UNCHANGED <<calls, store, inputs, drained, probe>>

\* PromiseGatherer.drain: the request handler, having sent the response,
\* waits for the tasks of call c; drain returns.
Drain(c) ==
    /\ ~drained[c]
    /\ DrainReturns(c)
    /\ drained' = [drained EXCEPT ![c] = TRUE]
    /\ UNCHANGED <<calls, tasks, store, inputs, probe>>

\* Requests are handled one after the other here: retrieveSkin is called
\* for the next request when the handler of the one before has drained.
CallAfterDrain(c, ix) ==
    /\ IF c = 1 THEN TRUE ELSE drained[c - 1]
    /\ Call(c, ix)

\* One Uuid-kind request of version 4.
DrainPool == << [identity |-> OnlineUuidText, identityType |-> "Uuid"] >>

InitDrain == InitWith(DrainPool)

NextDrain ==
    \/ \E c \in Calls, ix \in PoolIndexes : CallAfterDrain(c, ix)
    \/ \E c \in Calls, storeWorks \in BOOLEAN : CacheRead(c, storeWorks)
    \/ \E c \in Calls, outcome \in {"absent", "skin", "error"} : ProfileFetch(c, outcome)
    \/ \E c \in Calls, outcome \in {"ok", "http500"} : TextureFetch(c, outcome)
    \/ \E c \in Calls, i \in TaskSlots, storeWorks \in BOOLEAN : SettleWrite(c, i, storeWorks)
    \/ \E c \in Calls : RegisterSibling(c)
    \/ \E c \in Calls : Drain(c)

\* Every write to the store settles, and the handler of a request calls
\* drain once the response is sent.
DrainFairness ==
    \A c \in Calls :
        /\ WF_vars(\E i \in TaskSlots, storeWorks \in BOOLEAN :
                       SettleWrite(c, i, storeWorks))
        /\ WF_vars(Drain(c))

SpecDrain == InitDrain /\ [][NextDrain]_vars /\ DrainFairness

\* The hash values the default choice is probed with: a span around zero
\* and the four values at the ends of the signed 32-bit range.
HashSpan == 64

MinInt32 == -2147483647 - 1

MaxInt32 == 2147483647

HashProbes ==
    (-HashSpan..HashSpan) \cup {MinInt32, MinInt32 + 1, MaxInt32 - 1, MaxInt32}

\* The raw UUIDs the default choice is probed with: OnlineUuid with its
\* first and its last byte replaced.
RawProbes ==
    {[OnlineUuid EXCEPT ![1] = a, ![16] = b] : a \in 0..15, b \in 0..15}

\* service.ts:94-106 applied to a hash value.
ProbeHash(hash) ==
    /\ probe' = [fn |-> "hash", hash |-> hash,
                 response |-> DefaultSkinForHash(hash)]
    /\ UNCHANGED <<calls, tasks, store, inputs, drained>>

\* service.ts:94-106 applied to a raw UUID.
ProbeUuid(raw) ==
    /\ probe' = [fn |-> "uuid", hash |-> javaHashCode(raw),
                 response |-> DefaultSkinResponse(raw)]
    /\ UNCHANGED <<calls, tasks, store, inputs, drained>>

NextHash ==
    \/ \E hash \in HashProbes : ProbeHash(hash)
    \/ \E raw \in RawProbes : ProbeUuid(raw)

SpecHash == Init /\ [][NextHash]_vars

\* OnlineUuid with its version nibble (the high half of byte 6, counted
\* from 0) replaced by v.
WithVersion(v) == [OnlineUuid EXCEPT ![7] = v * 16 + (@ % 16)]

\* Uuid-kind requests for every version 0..15, version v at index v + 1.
VersionPool ==
    [ix \in PoolIndexes |->
        [identity |-> toHex(WithVersion(ix - 1)), identityType |-> "Uuid"]]

InitVersions == InitWith(VersionPool)

\* The steps of retrieveSkin for Uuid-kind requests: normalizeRequest makes
\* no lookup.
NextVersions ==
    \/ \E c \in Calls, ix \in PoolIndexes : Call(c, ix)
    \/ \E c \in Calls, storeWorks \in BOOLEAN : CacheRead(c, storeWorks)
    \/ \E c \in Calls, outcome \in ProfileShapes \cup {"error"} : ProfileFetch(c, outcome)
    \/ \E c \in Calls, outcome \in {"ok", "http500"} : TextureFetch(c, outcome)
    \/ \E c \in Calls, i \in TaskSlots, storeWorks \in BOOLEAN : SettleWrite(c, i, storeWorks)

SpecVersions == InitVersions /\ [][NextVersions]_vars

\* The dashed form 8-4-4-4-12 of a 32-digit hex text.
Dashed(text) ==
    SubSeq(text, 1, 8) \o <<45>> \o SubSeq(text, 9, 12) \o <<45>>
        \o SubSeq(text, 13, 16) \o <<45>> \o SubSeq(text, 17, 20) \o <<45>>
        \o SubSeq(text, 21, 32)

\* The upper-case form of a hex text.
UpperCase(text) ==
    [i \in 1..Len(text) |-> IF text[i] >= 97 THEN text[i] - 32 ELSE text[i]]

\* Requests that denote OnlineUuid in each textual form the UUID parser
\* accepts, and by the username that resolves to it.
FormPool ==
    << [identity |-> OnlineUuidText, identityType |-> "Uuid"],
       [identity |-> Dashed(OnlineUuidText), identityType |-> "Uuid"],
       [identity |-> UpperCase(OnlineUuidText), identityType |-> "Uuid"],
       [identity |-> Str_Notch, identityType |-> "Username"] >>

InitForms == InitWith(FormPool)

\* The steps of retrieveSkin with the collaborators' answers that matter
\* to the textual forms: the lookup finds the player or not, the profile
\* exists with a skin or not, and the store and the texture server work.
NextForms ==
    \/ \E c \in Calls, ix \in PoolIndexes : Call(c, ix)
    \/ \E c \in Calls, outcome \in {"match", "absent"} : LookupReturn(c, outcome)
    \/ \E c \in Calls : CacheRead(c, TRUE)
    \/ \E c \in Calls, outcome \in {"absent", "skin"} : ProfileFetch(c, outcome)
    \/ \E c \in Calls : TextureFetch(c, "ok")
    \/ \E c \in Calls, i \in TaskSlots : SettleWrite(c, i, TRUE)

SpecForms == InitForms /\ [][NextForms]_vars

-----------------------------------------------------------------------------
(* Properties.                                                             *)

DefaultImages == {STEVE_SKIN, ALEX_SKIN}

\* The two responses of the deterministic default path.
DefaultResponses ==
    { [kind |-> "response", body |-> b,
       headers |-> {<<TagHeader, "invalid-profile">>}] : b \in DefaultImages }

Started(c) == calls[c].pc # "idle"

Returned(c) == calls[c].pc = "done"

Rejected(c) == calls[c].pc = "failed"

\* No collaborator beyond the username lookup was used by call c.
NoCacheNoUpstream(c) ==
    /\ calls[c].read = "none"
    /\ calls[c].prof = "none"
    /\ calls[c].tex = "none"
    /\ tasks[c] = <<>>

\* The key of the skin entry of OnlineUuid, as the text "skin:" + uuid.
OnlineKey == Str_skinPrefix \o OnlineUuidText

\* C1: a version-4 request whose profile fetch succeeds and whose texture
\* fetch answers with a non-success status does not fail: retrieveSkin
\* returns one of the two default images of the default path.
C1_TextureFailureFallsBack ==
    \A c \in Calls :
        (calls[c].prof = "url" /\ calls[c].tex = "http500")
            => /\ Returned(c)
               /\ calls[c].response \in DefaultResponses

\* C2: normalizeRequest never fails outward: whatever the username lookup
\* did (match, absent, error), the call got a Uuid-kind request back, and
\* after a lookup error that request bears the offline UUID of the username.
C2_NormalizeNeverFails ==
    \A c \in Calls :
        calls[c].lookup # "none"
            => /\ calls[c].normalized.identityType = "Uuid"
               /\ calls[c].response # Thrown("LookupError")
               /\ calls[c].lookup = "error"
                    => calls[c].normalized =
                         [identity |-> toHex(offlinePlayerUuid(calls[c].request.identity)),
                          identityType |-> "Uuid"]

\* C3: whenever the profile fetch reports no profile for a version-4 UUID,
\* retrieveSkin returns one of the two default images tagged
\* invalid-profile, and never an error.
C3_NoProfileYieldsDefault ==
    \A c \in Calls :
        calls[c].prof = "absent"
            => /\ Returned(c)
               /\ calls[c].response \in DefaultResponses

C3_Witness ==
    \E c \in Calls :
        /\ calls[c].prof = "absent"
        /\ uuidVersion(fromHex(calls[c].normalized.identity).bytes) = 4
        /\ Returned(c)
        /\ calls[c].response.body = STEVE_SKIN

\* C4: a negative result is never cached: a call that found no profile
\* leaves, once its deferred tasks have settled, no entry behind, so no
\* later call is served a default image out of the cache.
C4_NegativeResultNotCached ==
    /\ \A c \in Calls :
           (calls[c].prof = "absent" /\ Settled(c))
               => \A i \in 1..Len(tasks[c]) : tasks[c][i].state # "written"
    /\ \A c \in Calls :
           (calls[c].read = "hit" /\ Returned(c))
               => calls[c].response \notin DefaultResponses

\* C5: of two sequential calls for the same version-4 UUID, given as a
\* UUID, against a skin at URL X with bytes Y and a working store, the
\* first (a miss) returns Y tagged origin and the second, issued after the
\* first's deferred write settled, returns Y tagged cache without any
\* profile or texture fetch; neither call looks a username up.
C5_SecondCallServedFromCache ==
    \A c1, c2 \in Calls :
        ( /\ c1 \in calls[c2].prior
          /\ calls[c1].request = calls[c2].request
          /\ calls[c1].request.identityType = "Uuid"
          /\ calls[c1].prof = "url"
          /\ calls[c1].tex = "ok"
          /\ \A i \in 1..Len(tasks[c1]) : tasks[c1][i].state = "written"
          /\ \A c3 \in Calls : \A i \in 1..Len(tasks[c3]) :
                 tasks[c3][i].value = TextureY
          /\ calls[c2].read \notin {"none", "fail"} )
        => /\ calls[c1].response = Tagged(TextureY, "origin")
           /\ calls[c2].read = "hit"
           /\ Returned(c2)
           /\ calls[c2].response = Tagged(TextureY, "cache")
           /\ calls[c2].prof = "none"
           /\ calls[c2].tex = "none"
           /\ tasks[c2] = <<>>
           /\ calls[c1].lookup = "none"
           /\ calls[c2].lookup = "none"

C5_Witness ==
    \E c1, c2 \in Calls :
        /\ c1 \in calls[c2].prior
        /\ calls[c1].request = calls[c2].request
        /\ calls[c1].response = Tagged(TextureY, "origin")
        /\ calls[c2].response = Tagged(TextureY, "cache")

\* The provenance tags of the outward contract.
ProvenanceTags == {"cache", "origin", "invalid-profile", "unknown", "mojang"}

\* C6: every response retrieveSkin returns, on every path, carries one
\* provenance tag out of cache, origin, invalid-profile, unknown, mojang.
C6_EveryResponseTagged ==
    \A c \in Calls :
        calls[c].response.kind = "response"
            => \E tag \in ProvenanceTags :
                   calls[c].response.headers = {<<TagHeader, tag>>}

\* C7: a request for one of the two special-cased identities returns the
\* Steve image and uses no collaborator: no username lookup, no cache, no
\* profile fetch, no texture fetch.
C7_AliasAlwaysSteve ==
    \A c \in Calls :
        (Started(c) /\ calls[c].request.identity \in {Str_char, Str_MHF_Steve})
            => /\ Returned(c)
               /\ calls[c].response.body = STEVE_SKIN
               /\ calls[c].lookup = "none"
               /\ NoCacheNoUpstream(c)

C7_Witness ==
    \E c \in Calls :
        /\ Returned(c)
        /\ calls[c].request.identity = Str_MHF_Steve
        /\ calls[c].response.body = STEVE_SKIN

\* C8: a username without an upstream match is normalized to its offline
\* (version 3) UUID; retrieveSkin then uses neither the cache nor the
\* profile or texture fetch and returns the default chosen by the hash of
\* the raw UUID bytes mod 2, tagged invalid-profile.
C8_LookupMissYieldsOfflineDefault ==
    \A c \in Calls :
        calls[c].lookup = "absent"
            => LET derived == offlinePlayerUuid(calls[c].request.identity)
                   raw     == fromHex(calls[c].normalized.identity).bytes
               IN  /\ calls[c].normalized =
                          [identity |-> toHex(derived), identityType |-> "Uuid"]
                   /\ raw = derived
                   /\ uuidVersion(raw) = 3
                   /\ Returned(c)
                   /\ NoCacheNoUpstream(c)
                   /\ calls[c].response =
                          Tagged(IF javaHashCode(raw) % 2 = 0
                                 THEN STEVE_SKIN ELSE ALEX_SKIN,
                                 "invalid-profile")

C8_Witness ==
    \E c \in Calls :
        /\ calls[c].lookup = "absent"
        /\ Returned(c)
        /\ calls[c].response = Tagged(ALEX_SKIN, "invalid-profile")

\* The calls whose normalized identity is OnlineUuid.
OnlineCalls ==
    {c \in Calls : /\ "identity" \in DOMAIN calls[c].normalized
                   /\ calls[c].normalized.identity = OnlineUuidText}

OnlineEntry == [key |-> OnlineKey, value |-> TextureY]

\* C9: however calls for the same version-4 UUID interleave against a
\* fixed upstream skin, none fails, each returns the skin's bytes tagged
\* origin or cache, the entry under "skin:" + uuid never holds anything
\* else, and once all deferred writes have settled, one of them having
\* reached the store, the entry holds exactly those bytes.
C9_RacingCallsAgree ==
    (\A c \in OnlineCalls : calls[c].prof \in {"none", "url"}
                            /\ calls[c].tex \in {"none", "ok"})
    => /\ \A c \in OnlineCalls : ~Rejected(c)
       /\ \A c \in OnlineCalls :
              Returned(c) => calls[c].response \in
                  {Tagged(TextureY, "origin"), Tagged(TextureY, "cache")}
       /\ StoreGet(OnlineKey) \subseteq {OnlineEntry}
       /\ ( /\ \A c \in OnlineCalls : \A i \in 1..Len(tasks[c]) :
                   tasks[c][i].state # "pending"
            /\ \E c \in OnlineCalls : \E i \in 1..Len(tasks[c]) :
                   tasks[c][i].state = "written" )
          => StoreGet(OnlineKey) = {OnlineEntry}

C9_Witness ==
    \E c1, c2 \in Calls :
        /\ c1 # c2
        /\ c1 \notin calls[c2].prior
        /\ c2 \notin calls[c1].prior
        /\ calls[c1].response = Tagged(TextureY, "origin")
        /\ calls[c2].response = Tagged(TextureY, "origin")
        /\ tasks[c1] # <<>> /\ tasks[c1][1].state = "written"
        /\ tasks[c2] # <<>> /\ tasks[c2][1].state = "written"
        /\ StoreGet(OnlineKey) = {OnlineEntry}

\* C10: when normalization yields an undefined or empty identity,
\* retrieveSkin returns the Steve image tagged unknown, without using the
\* cache, the profile fetch or the texture fetch, and without an error.
C10_EmptyIdentityIsUnknown ==
    \A c \in Calls :
        ( /\ calls[c].normalized.identityType = "Uuid"
          /\ \/ "identity" \notin DOMAIN calls[c].normalized
             \/ calls[c].normalized.identity = Str_empty )
        => /\ Returned(c)
           /\ calls[c].response = Tagged(STEVE_SKIN, "unknown")
           /\ NoCacheNoUpstream(c)

C10_Witness ==
    \E c \in Calls :
        /\ calls[c].lookup = "noid"
        /\ "identity" \notin DOMAIN calls[c].normalized
        /\ calls[c].response = Tagged(STEVE_SKIN, "unknown")

\* C12: normalizeRequest never mutates its input: every request object
\* keeps the identity and the kind it was issued with, on every path and
\* also when several calls in flight were given the same object, and the
\* request returned for a username input is a new object.
C12_InputNeverMutated ==
    /\ inputs = RequestPool
    /\ \A c \in Calls :
           Started(c) => inputs[calls[c].input] = calls[c].request
    /\ \A c \in Calls :
           calls[c].lookup \notin {"none", "error"} => ~calls[c].sameObject

C12_Witness ==
    \E c1, c2 \in Calls :
        /\ c1 # c2
        /\ calls[c1].input = calls[c2].input
        /\ c1 \notin calls[c2].prior
        /\ c2 \notin calls[c1].prior
        /\ calls[c1].lookup = "match"
        /\ calls[c2].lookup = "absent"
        /\ inputs[calls[c1].input] =
               [identity |-> Str_Notch, identityType |-> "Username"]

\* The answers of the profile service with a profile but no skin URL.
NoUrlShapes == {"noprops", "notextures", "noskin"}

\* Each of these shapes is a profile from which lines 110-113 and 150-161
\* extract no URL.
NoUrlShapesHaveNoUrl ==
    \A shape \in NoUrlShapes :
        LET lookup == ProfileResult(shape, OnlineUuidText)
        IN  /\ ~lookup.isNull
            /\ TextureUrlOfProfile(lookup.profile) = [threw |-> FALSE, url |-> {}]

\* C18: for a version-4 UUID whose profile has no usable skin URL (no
\* properties, no textures property, textures without SKIN) retrieveSkin
\* fetches no texture and returns the Steve image tagged origin, never
\* Alex and never invalid-profile; Steve is what it registers for storing
\* under "skin:" + uuid, and a later call served that entry returns Steve
\* tagged cache.
C18_NoSkinUrlYieldsSteve ==
    /\ NoUrlShapesHaveNoUrl
    /\ \A c \in Calls :
           calls[c].prof = "nourl"
               => /\ Returned(c)
                  /\ uuidVersion(fromHex(calls[c].normalized.identity).bytes) = 4
                  /\ calls[c].response = Tagged(STEVE_SKIN, "origin")
                  /\ calls[c].tex = "none"
                  /\ calls[c].textureUrl = {}
                  /\ Len(tasks[c]) = 1
                  /\ tasks[c][1].key = Str_skinPrefix \o calls[c].normalized.identity
                  /\ tasks[c][1].value = STEVE_SKIN
                  /\ ( /\ tasks[c][1].state = "written"
                       /\ \A d \in Calls \ {c} : tasks[d] = <<>> )
                       => [key |-> tasks[c][1].key, value |-> STEVE_SKIN] \in store
    /\ \A c1, c2 \in Calls :
           ( /\ c1 \in calls[c2].prior
             /\ calls[c1].prof = "nourl"
             /\ calls[c1].normalized = calls[c2].normalized
             /\ tasks[c1][1].state = "written"
             /\ \A c3 \in Calls \ {c1, c2} : tasks[c3] = <<>>
             /\ calls[c2].read \notin {"none", "fail"} )
           => /\ calls[c2].read = "hit"
              /\ calls[c2].response = Tagged(STEVE_SKIN, "cache")
              /\ calls[c2].prof = "none"

C18_Witness ==
    \E c1, c2 \in Calls :
        /\ c1 \in calls[c2].prior
        /\ calls[c1].prof = "nourl"
        /\ calls[c1].response = Tagged(STEVE_SKIN, "origin")
        /\ tasks[c1][1].state = "written"
        /\ calls[c2].response = Tagged(STEVE_SKIN, "cache")

\* The errors of the upstream services, the only ones a call fails with
\* once its identity is normalized.
UpstreamErrors == {Thrown("ProfileError"), Thrown("SyntaxError"),
                   Thrown("TextureError")}

\* C14: a failure of the store never fails retrieveSkin. A failed read of
\* "skin:" + uuid is a miss: the producer runs, and the call fails only if
\* the upstream does. A failed deferred write leaves the response as it
\* was computed, tagged origin when a skin was produced, and the call's
\* tasks count as settled.
C14_StoreFailureNeverFailsCall ==
    \A c \in Calls :
        /\ calls[c].read = "fail"
               => /\ calls[c].pc \in {"profileFetch", "textureFetch"}
                         \/ calls[c].prof # "none"
                  /\ Rejected(c) => /\ calls[c].response \in UpstreamErrors
                                    /\ \/ calls[c].prof \in {"error", "garbled"}
                                       \/ calls[c].tex = "http500"
                  /\ Returned(c) => tasks[c] # <<>>
        /\ \A i \in 1..Len(tasks[c]) :
               tasks[c][i].state = "failed"
                   => /\ Returned(c)
                      /\ calls[c].response =
                             IF Len(tasks[c][i].value) > 0
                             THEN Tagged(tasks[c][i].value, "origin")
                             ELSE DefaultSkinResponse(
                                      fromHex(calls[c].normalized.identity).bytes)
                      /\ (\A j \in 1..Len(tasks[c]) : tasks[c][j].state # "pending")
                             => Settled(c)

C14_Witness ==
    \E c \in Calls :
        /\ calls[c].read = "fail"
        /\ calls[c].tex = "ok"
        /\ tasks[c][1].state = "failed"
        /\ calls[c].response = Tagged(TextureY, "origin")
        /\ Settled(c)

\* The raw UUID a started call works on, once its identity is normalized
\* to a parseable text.
RawOf(c) == fromHex(calls[c].normalized.identity).bytes

\* Call c has normalized its identity to the text of a UUID.
HasRaw(c) ==
    /\ calls[c].normalized # NoRequest
    /\ "identity" \in DOMAIN calls[c].normalized
    /\ fromHex(calls[c].normalized.identity).ok

\* C20: requests that denote the same version-4 UUID in different accepted
\* textual forms, or by a username that resolves to it, use the same cache
\* key, so that a call issued after an earlier one has settled its write is
\* served from that entry.
C20_FormsShareCacheEntry ==
    \A c1, c2 \in Calls :
        ( /\ HasRaw(c1) /\ HasRaw(c2)
          /\ RawOf(c1) = RawOf(c2)
          /\ uuidVersion(RawOf(c1)) = 4
          /\ calls[c1].key # Str_empty /\ calls[c2].key # Str_empty )
        => /\ calls[c1].key = calls[c2].key
           /\ ( /\ c1 \in calls[c2].prior
                /\ calls[c1].tex = "ok"
                /\ tasks[c1][1].state = "written"
                /\ calls[c2].read \notin {"none", "fail"} )
              => calls[c2].read = "hit"

\* Call c returned through the default path of service.ts:94-106.
OnDefaultPath(c) ==
    /\ Returned(c)
    /\ calls[c].response.headers = {<<TagHeader, "invalid-profile">>}

\* C13: the fallback is deterministic per identity: two calls that reach
\* the default path with the same normalized UUID return the same default
\* image, whatever the cache held, whichever came first, however they
\* interleaved and whatever form the request had.
C13_FallbackDeterministic ==
    \A c1, c2 \in Calls :
        ( /\ OnDefaultPath(c1) /\ OnDefaultPath(c2)
          /\ RawOf(c1) = RawOf(c2) )
        => /\ calls[c1].response = calls[c2].response
           /\ calls[c1].response = DefaultSkinResponse(RawOf(c1))

C13_Witness ==
    \E c1, c2 \in Calls :
        /\ c1 \in calls[c2].prior
        /\ OnDefaultPath(c1) /\ OnDefaultPath(c2)
        /\ calls[c1].request.identityType = "Username"
        /\ calls[c2].request = [identity |-> Dashed(OnlineUuidText),
                                identityType |-> "Uuid"]
        /\ RawOf(c1) = RawOf(c2)
        /\ calls[c1].prof = "absent"
        /\ calls[c2].prof = "absent"
        /\ calls[c1].response = calls[c2].response

\* C16: on the default path the image follows the parity of the 32-bit
\* hash: Steve iff the hash is even, Alex iff it is odd, for every value of
\* the signed 32-bit range, negative values and -2^31 included; exactly one
\* of the two is selected, tagged invalid-profile.
C16_ParityChoosesDefault ==
    probe.fn \in {"hash", "uuid"}
        => /\ probe.hash >= MinInt32 /\ probe.hash <= MaxInt32
           /\ probe.response \in {Tagged(STEVE_SKIN, "invalid-profile"),
                                  Tagged(ALEX_SKIN, "invalid-profile")}
           /\ probe.response.body = STEVE_SKIN <=> probe.hash % 2 = 0
           /\ probe.response.body = ALEX_SKIN <=> probe.hash % 2 = 1

C16_Witness ==
    /\ probe.fn = "hash"
    /\ probe.hash = MinInt32
    /\ probe.response = Tagged(STEVE_SKIN, "invalid-profile")

\* The version of the UUID a Uuid-kind request of call c carries.
RequestVersion(c) == uuidVersion(fromHex(calls[c].request.identity).bytes)

\* C17: the upstream path is gated on version 4 only. A Uuid-kind request
\* of any other version 0..15 returns a default image tagged
\* invalid-profile with no cache read, profile fetch, texture fetch or
\* write; one of version 4 enters computeBuffer, once, with the key
\* "skin:" followed by the normalized identity.
C17_OnlyVersionFourGoesUpstream ==
    \A c \in Calls :
        (Started(c) /\ calls[c].request.identityType = "Uuid")
        => /\ calls[c].normalized = calls[c].request
           /\ RequestVersion(c) \in 0..15
           /\ RequestVersion(c) # 4
                  => /\ Returned(c)
                     /\ NoCacheNoUpstream(c)
                     /\ calls[c].key = Str_empty
                     /\ calls[c].response \in DefaultResponses
                     /\ calls[c].response = DefaultSkinResponse(RawOf(c))
           /\ RequestVersion(c) = 4
                  => /\ calls[c].key = Str_skinPrefix \o calls[c].normalized.identity
                     /\ calls[c].pc = "cacheRead" <=> calls[c].read = "none"
                     /\ Len(tasks[c]) <= 1

C17_Witness ==
    \E c1, c2 \in Calls :
        /\ Returned(c1) /\ RequestVersion(c1) = 15
        /\ calls[c1].response \in DefaultResponses
        /\ Started(c2) /\ RequestVersion(c2) = 4
        /\ calls[c2].read = "miss"

\* C11: fetchProfile returns {absent, source: mojang} without asking the
\* profile collaborator whenever the normalized UUID has version 3; for
\* every other normalized UUID it asks the collaborator about that UUID
\* and what it returns is exactly the collaborator's answer, provenance
\* included (the collaborator's failure is fetchProfile's failure).
C11_FetchProfileGate ==
    \A c \in Calls :
        (calls[c].op = "profile" /\ HasRaw(c))
        => /\ uuidVersion(RawOf(c)) = 3
                  => /\ Returned(c)
                     /\ calls[c].response =
                            [kind |-> "profile", isNull |-> TRUE, source |-> "mojang"]
                     /\ calls[c].collab = NoResponse
           /\ uuidVersion(RawOf(c)) # 3
                  => IF calls[c].collab = NoResponse
                     THEN calls[c].pc = "profileCall"
                     ELSE /\ calls[c].pc \in {"done", "failed"}
                          /\ calls[c].response = calls[c].collab
                          /\ Returned(c)
                                 => /\ calls[c].collab.asked = calls[c].normalized.identity
                                    /\ calls[c].collab.source \in {"cache", "origin"}

C11_Witness ==
    \E c1, c2 \in Calls :
        /\ calls[c1].op = "profile" /\ calls[c1].lookup = "absent"
        /\ Returned(c1) /\ calls[c1].collab = NoResponse
        /\ calls[c1].response.source = "mojang"
        /\ calls[c2].op = "profile" /\ Returned(c2)
        /\ uuidVersion(RawOf(c2)) = 1
        /\ calls[c2].response = calls[c2].collab
        /\ calls[c2].response.source = "cache"

FreshlyComputed(c) ==
    /\ Returned(c)
    /\ calls[c].read \in {"miss", "fail"}

\* What holds of the deferred write in every state: it is registered, under
\* the call's key, by the time retrieveSkin has returned, and drain has
\* returned only if the response is out and no task is pending.
DeferredWriteSafety ==
    \A c \in Calls :
        /\ FreshlyComputed(c)
               => \E i \in 1..Len(tasks[c]) :
                      /\ tasks[c][i].key = calls[c].key
                      /\ Len(tasks[c][i].value) > 0
                             => calls[c].response = Tagged(tasks[c][i].value, "origin")
        /\ drained[c]
               => /\ calls[c].pc \in {"done", "failed"}
                  /\ \A i \in 1..Len(tasks[c]) : tasks[c][i].state # "pending"

\* C15: the cache write of a freshly computed skin is deferred. The write
\* is registered before retrieveSkin returns, and retrieveSkin returns
\* while it may still be pending; drain returns only after every registered
\* task has settled; and a failed task neither keeps drain from returning
\* nor keeps its siblings from settling: once the response is out, drain
\* eventually returns.
C15_WriteDeferredAndDrained ==
    /\ []DeferredWriteSafety
    /\ \A c \in Calls : Returned(c) ~> drained[c]

C15_Witness ==
    \E c \in Calls :
        /\ FreshlyComputed(c)
        /\ calls[c].response = Tagged(TextureY, "origin")
        /\ Len(tasks[c]) = 2
        /\ tasks[c][1].state = "failed"
        /\ tasks[c][2].state = "written"
        /\ drained[c]

\* retrieveSkin has returned while its write is still pending.
C15_ReturnedBeforeWrite ==
    \E c \in Calls :
        /\ FreshlyComputed(c)
        /\ tasks[c][1].state = "pending"
        /\ ~drained[c]

====
